---- MODULE Spec2Model ----
(***************************************************************************)
(* Model of ycbcr.py: the generator of 16.16 fixed-point RGB <-> YCbCr     *)
(* conversion expressions.                                                 *)
(*                                                                         *)
(* The script is straight-line code: one action per statement, pc being    *)
(* the source line of the next statement to run.  Python floats are        *)
(* modelled as exact rationals (a Real is q + n/d with 0 <= n < d in       *)
(* lowest terms), so a product or quotient is the exact value that the     *)
(* float computation approximates to within 1e-11; the two agree on every  *)
(* rounded coefficient unless a scaled entry is an exact tie.              *)
(* The one place where the rounding of the floats decides what the script  *)
(* does is the inversion of line 27 for weights with kb + kr = 1, whose    *)
(* exact matrix is singular: a run with such weights is computed in IEEE   *)
(* 754 doubles, bit for bit (a Double), linalg.inv with the operations of  *)
(* LAPACK's reference gesv in their order.                                 *)
(* The weights kb, kr are counted in units of 1/WDen.                      *)
(* Python indexes rows from 0, the sequences here from 1: row i of the     *)
(* code is A[i + 1].                                                       *)
(***************************************************************************)
EXTENDS Integers, Sequences, FiniteSets

VARIABLES pc, kb, kr, A, B, i, iter, out, err

vars == <<pc, kb, kr, A, B, i, iter, out, err>>

----------------------------------------------------------------------------
(* Bounds of the exploration. *)

\* The weights explored besides the two standards: the grid of quarters
\* {0, 1/4, ..., MaxGridIdx/4}^2, whose members are exact as floats.
MaxGridIdx == 4

\* The pixel levels the emitted expressions are evaluated on:
\* {255 * k \div MaxLevelIdx : k \in 0 .. MaxLevelIdx}, which holds 0 and 255.
MaxLevelIdx == 51

----------------------------------------------------------------------------
(* Program constants. *)

WDen == 10000
Fixed == 65536
HalfFixed == 32768
LumaLevels == 219
ChromaLevels == 224
FullLevels == 255
LumaOffset == 16
ChromaOffset == 128

\* A Python float is an IEEE 754 double: 53 significant bits.
MantissaBits == 53


BT601 == <<1140, 2990>>
BT709 == <<722, 2126>>

GridStep == WDen \div 4
TenthStep == WDen \div 10

\* The tenths with kb + kr = 1: most of them are not exact as floats.
Complementary == {<<TenthStep * k, WDen - TenthStep * k>> : k \in 1 .. 9}

Weights ==
    {BT709, BT601}
        \cup {<<GridStep * a, GridStep * b>> : a, b \in 0 .. MaxGridIdx}
        \cup Complementary

----------------------------------------------------------------------------
(* Exact arithmetic standing for Python's float arithmetic. *)

Abs(x) == IF x < 0 THEN -x ELSE x

RECURSIVE Gcd(_, _)
Gcd(a, b) == IF b = 0 THEN a ELSE Gcd(b, a % b)

\* A fraction <<n, d>> in lowest terms with d > 0.
Norm(n, d) ==
    LET g == Gcd(Abs(n), Abs(d))
        s == IF d < 0 THEN -1 ELSE 1
    IN  <<s * (n \div g), s * (d \div g)>>

\* The Real n/d (d # 0): q + r/e with q the floor.
FromFrac(n, d) ==
    LET f == Norm(n, d)
    IN  [q |-> f[1] \div f[2], n |-> f[1] % f[2], d |-> f[2]]

Num(k) == [q |-> k, n |-> 0, d |-> 1]

ToFrac(x) == <<x.q * x.d + x.n, x.d>>

RNeg(x) == LET f == ToFrac(x) IN FromFrac(-f[1], f[2])

RAdd(x, y) ==
    LET f == ToFrac(x)
        h == ToFrac(y)
        g == Gcd(f[2], h[2])
    IN  FromFrac(f[1] * (h[2] \div g) + h[1] * (f[2] \div g), (f[2] \div g) * h[2])

RSub(x, y) == RAdd(x, RNeg(y))

\* Factors are cancelled crosswise before multiplying.
FracMul(f, h) ==
    LET g1 == Gcd(Abs(f[1]), h[2])
        g2 == Gcd(Abs(h[1]), f[2])
    IN  <<(f[1] \div g1) * (h[1] \div g2), (f[2] \div g2) * (h[2] \div g1)>>

RMul(x, y) ==
    LET p == FracMul(ToFrac(x), ToFrac(y)) IN FromFrac(p[1], p[2])

\* x / y for y # 0.
RDiv(x, y) ==
    LET h == ToFrac(y)
        r == IF h[1] < 0 THEN <<-h[2], -h[1]>> ELSE <<h[2], h[1]>>
        p == FracMul(ToFrac(x), r)
    IN  FromFrac(p[1], p[2])

\* <<(a * b) \div c, (a * b) % c>> for a, b >= 0 and c > 0, bit by bit over a
\* so that no intermediate value exceeds 2 * c + b.
RECURSIVE MulDivMod(_, _, _)
MulDivMod(a, b, c) ==
    IF a = 0
    THEN <<0, 0>>
    ELSE LET h == MulDivMod(a \div 2, b, c)
             t == 2 * h[2] + (a % 2) * b
         IN  <<2 * h[1] + t \div c, t % c>>

\* x * sn / sd for a positive factor sn/sd: a scaled entry is too large for
\* a single numerator, hence the integer part is kept apart.
RScale(x, sn, sd) ==
    LET f  == ToFrac(x)
        s  == Norm(sn, sd)
        g1 == Gcd(Abs(f[1]), s[2])
        g2 == Gcd(s[1], f[2])
        m  == Abs(f[1]) \div g1
        dn == (f[2] \div g2) * (s[2] \div g1)
        qr == MulDivMod(m, s[1] \div g2, dn)
    IN  IF qr[2] = 0
        THEN Num(IF f[1] >= 0 THEN qr[1] ELSE -qr[1])
        ELSE IF f[1] >= 0
             THEN [q |-> qr[1], n |-> qr[2], d |-> dn]
             ELSE [q |-> -qr[1] - 1, n |-> dn - qr[2], d |-> dn]

\* Rounding replaced by the floor.
RFloor(x) == Num(x.q)

\* numpy's round: to the nearest integer, a tie to the even one.
RRound(x) ==
    IF 2 * x.n < x.d THEN Num(x.q)
    ELSE IF 2 * x.n > x.d THEN Num(x.q + 1)
    ELSE IF x.q % 2 = 0 THEN Num(x.q) ELSE Num(x.q + 1)

\* Python's int(): truncation toward zero.
PyInt(x) == IF x.q < 0 /\ x.n > 0 THEN x.q + 1 ELSE x.q

----------------------------------------------------------------------------
(* Natural numbers of any size: the sequence of the digits in base         *)
(* 2^LimbBits, the least significant first, with no leading zero digit.    *)

LimbBits == 15
Base == 2 ^ LimbBits

RECURSIVE BigOf(_)
BigOf(n) == IF n = 0 THEN <<>> ELSE <<n % Base>> \o BigOf(n \div Base)

Low(a) == IF a = <<>> THEN 0 ELSE a[1]
Rest(a) == IF a = <<>> THEN <<>> ELSE Tail(a)

\* The number a * Base + d.
Cons(d, a) == IF d = 0 /\ a = <<>> THEN <<>> ELSE <<d>> \o a

\* a + b + c
RECURSIVE BigAddC(_, _, _)
BigAddC(a, b, c) ==
    IF a = <<>> /\ b = <<>>
    THEN BigOf(c)
    ELSE LET x == Low(a) + Low(b) + c
         IN  Cons(x % Base, BigAddC(Rest(a), Rest(b), x \div Base))

\* a - b - c, for a >= b + c
RECURSIVE BigSubC(_, _, _)
BigSubC(a, b, c) ==
    IF a = <<>>
    THEN <<>>
    ELSE LET x == Low(a) - Low(b) - c
         IN  Cons(x % Base, BigSubC(Rest(a), Rest(b), IF x < 0 THEN 1 ELSE 0))

\* -1, 0 or 1 as a < b, a = b or a > b
RECURSIVE BigCmp(_, _)
BigCmp(a, b) ==
    LET n == Len(a)
    IN  IF n # Len(b) THEN (IF n < Len(b) THEN -1 ELSE 1)
        ELSE IF n = 0 THEN 0
        ELSE IF a[n] # b[n] THEN (IF a[n] < b[n] THEN -1 ELSE 1)
        ELSE BigCmp(SubSeq(a, 1, n - 1), SubSeq(b, 1, n - 1))

\* a * k + c, for k and c below Base
RECURSIVE BigMulSmall(_, _, _)
BigMulSmall(a, k, c) ==
    IF a = <<>>
    THEN BigOf(c)
    ELSE LET x == a[1] * k + c
         IN  Cons(x % Base, BigMulSmall(Tail(a), k, x \div Base))

RECURSIVE BigMul(_, _)
BigMul(a, b) ==
    IF b = <<>>
    THEN <<>>
    ELSE BigAddC(BigMulSmall(a, b[1], 0), Cons(0, BigMul(a, Tail(b))), 0)

\* <<a \div k, a % k>>, for 0 < k <= Base
RECURSIVE BigDivSmall(_, _)
BigDivSmall(a, k) ==
    IF a = <<>>
    THEN <<<<>>, 0>>
    ELSE LET h == BigDivSmall(Tail(a), k)
             x == h[2] * Base + a[1]
         IN  <<Cons(x \div k, h[1]), x % k>>

\* a * 2^n
BigShl(a, n) ==
    IF a = <<>>
    THEN <<>>
    ELSE [j \in 1 .. n \div LimbBits |-> 0] \o BigMulSmall(a, 2 ^ (n % LimbBits), 0)

\* a \div 2^n
BigShr(a, n) ==
    BigDivSmall(SubSeq(a, n \div LimbBits + 1, Len(a)), 2 ^ (n % LimbBits))[1]

RECURSIVE Width(_)
Width(d) == IF d = 0 THEN 0 ELSE 1 + Width(d \div 2)

\* The number of bits of a.
BitLen(a) == IF a = <<>> THEN 0 ELSE LimbBits * (Len(a) - 1) + Width(a[Len(a)])

\* a % 2^n # 0
LowBitsSet(a, n) ==
    \E j \in 1 .. Len(a) :
        IF j <= n \div LimbBits
        THEN a[j] # 0
        ELSE j = n \div LimbBits + 1 /\ a[j] % (2 ^ (n % LimbBits)) # 0

\* The quotient q of a division by 2^n rounded to the nearest, a tie to even:
\* up when the first bit dropped is set and either a lower one is (past the
\* half) or q is odd.
RoundUp(q, first, past) ==
    IF first = 1 /\ (past \/ Low(q) % 2 = 1) THEN BigAddC(q, BigOf(1), 0) ELSE q

\* a \div 2^n rounded to the nearest, a tie to even, for n > 0.
BigShrNearest(a, n) ==
    RoundUp(BigShr(a, n), Low(BigShr(a, n - 1)) % 2, LowBitsSet(a, n - 1))

\* Division bit by bit, the way it is done by hand: from a remainder r < 2 * b,
\* n more bits of the quotient r / b (as a number below 2^n, n <= LimbBits)
\* and the remainder they leave, doubled as many times.  The bits are found
\* half by half, the second half from the remainder of the first.
RECURSIVE DivBits(_, _, _)
RECURSIVE DivMoreBits(_, _, _)
DivBits(r, b, n) ==
    IF n = 1
    THEN IF BigCmp(r, b) >= 0
         THEN <<1, BigMulSmall(BigSubC(r, b, 0), 2, 0)>>
         ELSE <<0, BigMulSmall(r, 2, 0)>>
    ELSE DivMoreBits(DivBits(r, b, n \div 2), b, n - n \div 2)

\* n bits more after the bits h[1], from the remainder h[2].
JoinBits(q, t, n) == <<q * (2 ^ n) + t[1], t[2]>>

DivMoreBits(h, b, n) == JoinBits(h[1], DivBits(h[2], b, n), n)

AsLimb(t) == <<BigOf(t[1]), t[2]>>

\* The same by k digits of LimbBits bits: <<quotient, remainder>>.
RECURSIVE DivLimbs(_, _, _)
RECURSIVE DivMoreLimbs(_, _, _)
DivLimbs(r, b, k) ==
    IF k = 1
    THEN AsLimb(DivBits(r, b, LimbBits))
    ELSE DivMoreLimbs(DivLimbs(r, b, k \div 2), b, k - k \div 2)

\* k digits more after the digits q, as numbers of any size.
JoinLimbs(q, t, k) == <<BigAddC(BigShl(q, k * LimbBits), t[1], 0), t[2]>>

DivMoreLimbs(h, b, k) == JoinLimbs(h[1], DivLimbs(h[2], b, k), k)

----------------------------------------------------------------------------
(* Python's floats, the IEEE 754 doubles, where their rounding matters: a  *)
(* Double is (-1)^neg * m * 2^e with m of exactly MantissaBits bits, or    *)
(* zero (m = 0).  The script's numbers are far from the overflow and the   *)
(* underflow thresholds, which are left out.                               *)

IsDouble(x) == "m" \in DOMAIN x

FZero == [neg |-> FALSE, m |-> <<>>, e |-> 0]

FIsZero(x) == x.m = <<>>

\* A mantissa q that the rounding carried to MantissaBits + 1 bits is 2^53.
Normal(neg, q, e) ==
    IF BitLen(q) > MantissaBits
    THEN [neg |-> neg, m |-> BigShr(q, 1), e |-> e + 1]
    ELSE [neg |-> neg, m |-> q, e |-> e]

\* (-1)^neg * M * 2^E rounded to the nearest Double, a tie to even.
FRound(neg, M, E) ==
    IF M = <<>> THEN FZero
    ELSE IF BitLen(M) <= MantissaBits
         THEN [neg |-> neg, m |-> BigShl(M, MantissaBits - BitLen(M)),
               e |-> E + BitLen(M) - MantissaBits]
         ELSE Normal(neg, BigShrNearest(M, BitLen(M) - MantissaBits),
                     E + BitLen(M) - MantissaBits)

\* float(n) of an integer n
FOfInt(n) == FRound(n < 0, BigOf(IF n < 0 THEN -n ELSE n), 0)

FNeg(x) == IF FIsZero(x) THEN x ELSE [x EXCEPT !.neg = ~x.neg]

\* A product or a sum before it is rounded: (-1)^neg * m * 2^e with m of any
\* size.
XMul(x, y) ==
    IF FIsZero(x) \/ FIsZero(y)
    THEN FZero
    ELSE [neg |-> x.neg # y.neg, m |-> BigMul(x.m, y.m), e |-> x.e + y.e]

\* X * 2^lo and Y * 2^lo with their signs, added.
AddAligned(xneg, X, yneg, Y, lo) ==
    IF xneg = yneg THEN [neg |-> xneg, m |-> BigAddC(X, Y, 0), e |-> lo]
    ELSE IF BigCmp(X, Y) = 0 THEN FZero
    ELSE IF BigCmp(X, Y) > 0 THEN [neg |-> xneg, m |-> BigSubC(X, Y, 0), e |-> lo]
    ELSE [neg |-> yneg, m |-> BigSubC(Y, X, 0), e |-> lo]

XAdd(x, y) ==
    IF FIsZero(x) THEN y
    ELSE IF FIsZero(y) THEN x
    ELSE IF x.e < y.e
         THEN AddAligned(x.neg, x.m, y.neg, BigShl(y.m, y.e - x.e), x.e)
         ELSE AddAligned(x.neg, BigShl(x.m, x.e - y.e), y.neg, y.m, y.e)

FMul(x, y) ==
    IF FIsZero(x) \/ FIsZero(y) THEN FZero ELSE FRound(XMul(x, y).neg, XMul(x, y).m, XMul(x, y).e)

\* The digits of a quotient kept before it is rounded: more than
\* MantissaBits + 2 bits.
QuotientLimbs == 4

\* The quotient d[1] with one bit more that tells whether the division left a
\* remainder d[2], rounded.
Quotient(neg, d, e) ==
    FRound(neg, BigMulSmall(d[1], 2, IF d[2] = <<>> THEN 0 ELSE 1), e)

\* x / y: the quotient of the mantissas to QuotientLimbs digits.  A zero
\* divisor is Python's ZeroDivisionError: the quotient has no value, as
\* 1 \div 0 has none.
FDiv(x, y) ==
    IF FIsZero(y) THEN FOfInt(1 \div Len(y.m))
    ELSE IF FIsZero(x) THEN FZero
    ELSE Quotient(x.neg # y.neg, DivLimbs(x.m, y.m, QuotientLimbs),
                  x.e - y.e - QuotientLimbs * LimbBits)

FAdd(x, y) ==
    IF FIsZero(x) THEN y
    ELSE IF FIsZero(y) THEN x
    ELSE FRound(XAdd(x, y).neg, XAdd(x, y).m, XAdd(x, y).e)

FSub(x, y) == FAdd(x, FNeg(y))

\* abs(x) < abs(y)
FAbsLess(x, y) ==
    IF FIsZero(y) THEN FALSE
    ELSE IF FIsZero(x) THEN TRUE
    ELSE x.e < y.e \/ (x.e = y.e /\ BigCmp(x.m, y.m) < 0)

\* numpy's round: the nearest integer, a tie to the even one.
FRint(x) ==
    IF FIsZero(x) \/ x.e >= 0 THEN x ELSE FRound(x.neg, BigShrNearest(x.m, -x.e), 0)

\* Python's int(): the integer part, as sign and size.
FInt(x) ==
    [neg |-> x.neg,
     big |-> IF x.e >= 0 THEN BigShl(x.m, x.e) ELSE BigShr(x.m, -x.e)]

\* The float of the quotient n / d of two integers, d > 0: a decimal literal
\* (0.0722 is 722 / 10000) or a true division (65536 * 255 / 219).
FOfRatio(n, d) == FDiv(FOfInt(n), FOfInt(d))

FOne == FOfInt(1)
FHalf == [neg |-> FALSE, m |-> BigShl(BigOf(1), MantissaBits - 1), e |-> -MantissaBits]

\* Lines 22-26 from the floats kr, 1 - kr - kb, kb, 1 - kb and 1 - kr.
FloatRows(fr, fg, fb, nb, nr) ==
    << <<fr, fg, fb>>,
       <<FDiv(FMul(FHalf, FNeg(fr)), nb),
         FDiv(FMul(FHalf, FNeg(fg)), nb),
         FDiv(FMul(FHalf, nb), nb)>>,
       <<FDiv(FMul(FHalf, nr), nr),
         FDiv(FMul(FHalf, FNeg(fg)), nr),
         FDiv(FMul(FHalf, FNeg(fb)), nr)>> >>

\* Line 23: 1 - kr - kb is (1 - kr) - kb.
FloatGreen(fb, fr) == FSub(FSub(FOne, fr), fb)

\* Lines 22-26 in doubles, for weights b/WDen and r/WDen with no zero
\* denominator.
FloatForwardMatrix(b, r) ==
    FloatRows(FOfRatio(r, WDen),
              FloatGreen(FOfRatio(b, WDen), FOfRatio(r, WDen)),
              FOfRatio(b, WDen),
              FSub(FOne, FOfRatio(b, WDen)),
              FSub(FOne, FOfRatio(r, WDen)))

\* Line 23: the float 1 - kr - kb, that is (1 - kr) - kb, is exactly 0.0.
GreenIsZero(b, r) ==
    FIsZero(FloatGreen(FOfRatio(b, WDen), FOfRatio(r, WDen)))

----------------------------------------------------------------------------
(* linalg.inv in doubles: LAPACK's gesv on the identity, that is the LU    *)
(* factorisation with partial pivoting (getrf) and, for each column of the *)
(* identity, the two triangular solves (getrs).                            *)

FIdentity == [r \in 1 .. 3 |-> [c \in 1 .. 3 |-> IF r = c THEN FOne ELSE FZero]]

Swap(M, a, b) == [M EXCEPT ![a] = M[b], ![b] = M[a]]

\* idamax: the first row from j on whose entry of column j is largest in size.
PivotRow(M, j) ==
    CHOOSE p \in j .. 3 :
        \A k \in j .. 3 :
            /\ ~FAbsLess(M[p][j], M[k][j])
            /\ k < p => FAbsLess(M[k][j], M[p][j])

\* Step j of getrf on the entry x of column c of a row below the pivot, whose
\* multiplier is l: u is the entry of the pivot's row in that column.
EliminateEntry(x, u, l, c, j) ==
    IF c < j THEN x
    ELSE IF c = j THEN l
    ELSE FSub(x, FMul(l, u))

EliminateRow(row, prow, l, j) ==
    <<EliminateEntry(row[1], prow[1], l, 1, j),
      EliminateEntry(row[2], prow[2], l, 2, j),
      EliminateEntry(row[3], prow[3], l, 3, j)>>

\* Row k after step j: the rows below the pivot have their entry of column j
\* multiplied by the pivot's reciprocal rp, then are updated.
EliminatedRow(M, k, j, rp) ==
    IF k <= j THEN M[k] ELSE EliminateRow(M[k], M[j], FMul(M[k][j], rp), j)

\* Step j of getrf on M, whose pivot is already in row j.
Eliminate(M, j) ==
    <<EliminatedRow(M, 1, j, FDiv(FOne, M[j][j])),
      EliminatedRow(M, 2, j, FDiv(FOne, M[j][j])),
      EliminatedRow(M, 3, j, FDiv(FOne, M[j][j]))>>

\* getrf from step j on, on the matrix M and the rows P of the identity that
\* follow the row exchanges: info is 0, or the first step whose pivot is 0.0.
RECURSIVE Getrf(_, _, _)
Getrf(M, P, j) ==
    IF j > 3
    THEN [info |-> 0, lu |-> M, rhs |-> P]
    ELSE LET p == PivotRow(M, j)
         IN  IF FIsZero(M[p][j])
             THEN [info |-> j, lu |-> M, rhs |-> P]
             ELSE Getrf(Eliminate(Swap(M, j, p), j), Swap(P, j, p), j + 1)

\* The forward substitution (the unit lower triangle of LU) on the column v,
\* step k: the entries below the k-th are updated, unless the k-th is 0.0.
ForwardEntry(LU, v, r, k) ==
    IF r > k THEN FSub(v[r], FMul(v[k], LU[r][k])) ELSE v[r]

ForwardStep(LU, v, k) ==
    IF FIsZero(v[k]) THEN v
    ELSE <<ForwardEntry(LU, v, 1, k), ForwardEntry(LU, v, 2, k),
           ForwardEntry(LU, v, 3, k)>>

RECURSIVE ForwardFrom(_, _, _)
ForwardFrom(LU, v, k) ==
    IF k > 3 THEN v ELSE ForwardFrom(LU, ForwardStep(LU, v, k), k + 1)

\* The backward substitution (the upper triangle of LU) on the column v,
\* step k: the k-th entry is divided by the diagonal, giving d, and the
\* entries above it are updated, unless the k-th entry is 0.0.
BackwardEntry(LU, v, r, k, d) ==
    IF r < k THEN FSub(v[r], FMul(d, LU[r][k]))
    ELSE IF r = k THEN d
    ELSE v[r]

BackwardUpdate(LU, v, k, d) ==
    <<BackwardEntry(LU, v, 1, k, d), BackwardEntry(LU, v, 2, k, d),
      BackwardEntry(LU, v, 3, k, d)>>

BackwardStep(LU, v, k) ==
    IF FIsZero(v[k]) THEN v ELSE BackwardUpdate(LU, v, k, FDiv(v[k], LU[k][k]))

RECURSIVE BackwardFrom(_, _, _)
BackwardFrom(LU, v, k) ==
    IF k < 1 THEN v ELSE BackwardFrom(LU, BackwardStep(LU, v, k), k - 1)

\* getrs on one column v.
SolveColumn(LU, v) == BackwardFrom(LU, ForwardFrom(LU, v, 1), 3)

\* The matrix whose columns are x1, x2, x3.
OfColumns(x1, x2, x3) ==
    << <<x1[1], x2[1], x3[1]>>,
       <<x1[2], x2[2], x3[2]>>,
       <<x1[3], x2[3], x3[3]>> >>

\* getrs on every column of the right-hand side of the factorisation f.
Solved(f) ==
    [info |-> f.info,
     inv  |-> IF f.info # 0 THEN <<>>
              ELSE OfColumns(
                       SolveColumn(f.lu, <<f.rhs[1][1], f.rhs[2][1], f.rhs[3][1]>>),
                       SolveColumn(f.lu, <<f.rhs[1][2], f.rhs[2][2], f.rhs[3][2]>>),
                       SolveColumn(f.lu, <<f.rhs[1][3], f.rhs[2][3], f.rhs[3][3]>>))]

\* linalg.inv(M): info as getrf gives it, inv the inverse when info is 0.
FInv(M) == Solved(Getrf(M, FIdentity, 1))

----------------------------------------------------------------------------
(* Matrices: sequences of rows, each a sequence of Reals. *)

Half == FromFrac(1, 2)
One == Num(1)

\* Lines 24-25 divide by (1 - kb) and by (1 - kr): ZeroDivisionError.
ZeroDenominator(b, r) == b = WDen \/ r = WDen

\* Lines 22-26 with wg for the three occurrences of (1 - kr - kb).
ForwardMatrixOf(wr, wg, wb) ==
        << <<wr, wg, wb>>,
           <<RDiv(RMul(Half, RNeg(wr)), RSub(One, wb)),
             RDiv(RMul(Half, RNeg(wg)), RSub(One, wb)),
             RDiv(RMul(Half, RSub(One, wb)), RSub(One, wb))>>,
           <<RDiv(RMul(Half, RSub(One, wr)), RSub(One, wr)),
             RDiv(RMul(Half, RNeg(wg)), RSub(One, wr)),
             RDiv(RMul(Half, RNeg(wb)), RSub(One, wr))>> >>

\* Lines 22-26, for weights b/WDen and r/WDen with no zero denominator.
ForwardMatrix(b, r) ==
    LET wb == FromFrac(b, WDen)
        wr == FromFrac(r, WDen)
    IN  ForwardMatrixOf(wr, RSub(RSub(One, wr), wb), wb)

Det2(a, b, c, d) == RSub(RMul(a, d), RMul(b, c))

\* Cofactor matrix of a 3x3 matrix: entry [r][c] is the signed minor of M[r][c].
Cofactors(M) ==
    << <<Det2(M[2][2], M[2][3], M[3][2], M[3][3]),
         Det2(M[2][3], M[2][1], M[3][3], M[3][1]),
         Det2(M[2][1], M[2][2], M[3][1], M[3][2])>>,
       <<Det2(M[1][3], M[1][2], M[3][3], M[3][2]),
         Det2(M[1][1], M[1][3], M[3][1], M[3][3]),
         Det2(M[1][2], M[1][1], M[3][2], M[3][1])>>,
       <<Det2(M[1][2], M[1][3], M[2][2], M[2][3]),
         Det2(M[1][3], M[1][1], M[2][3], M[2][1]),
         Det2(M[1][1], M[1][2], M[2][1], M[2][2])>> >>

Det3(M) ==
    LET C == Cofactors(M)
    IN  RAdd(RAdd(RMul(M[1][1], C[1][1]), RMul(M[1][2], C[1][2])),
             RMul(M[1][3], C[1][3]))

\* The weights whose exact forward matrix is singular (its determinant is a
\* non-zero multiple of 1 - kr - kb): what linalg.inv does with them is
\* decided by the rounding of the doubles.
InDoubles(b, r) == b + r = WDen

\* linalg.inv raises LinAlgError("Singular matrix") when getrf meets a pivot
\* that is exactly 0.0.
IsSingular(b, r) ==
    InDoubles(b, r) /\ Getrf(FloatForwardMatrix(b, r), FIdentity, 1).info # 0

\* Lines 22-26: the matrix as the run holds it.  It has no value when a
\* denominator is zero, where the division has none.
BuildMatrix(b, r) ==
    IF InDoubles(b, r) THEN FloatForwardMatrix(b, r) ELSE ForwardMatrix(b, r)

\* The inverse without the transposition of the cofactors.
Inv3Untransposed(M) ==
    LET C == Cofactors(M)
        D == Det3(M)
    IN  [r \in 1 .. 3 |-> [c \in 1 .. 3 |-> RDiv(C[r][c], D)]]

\* linalg.inv of a non-singular 3x3 matrix: adjugate over determinant.
Inv3(M) ==
    LET C == Cofactors(M)
        D == Det3(M)
    IN  [r \in 1 .. 3 |-> [c \in 1 .. 3 |-> RDiv(C[c][r], D)]]

MatMul(M, N) ==
    [r \in 1 .. 3 |->
        [c \in 1 .. 3 |->
            RAdd(RAdd(RMul(M[r][1], N[1][c]), RMul(M[r][2], N[2][c])),
                 RMul(M[r][3], N[3][c]))]]

Identity == [r \in 1 .. 3 |-> [c \in 1 .. 3 |-> IF r = c THEN One ELSE Num(0)]]

\* x * (sn / sd)
Scale(x, sn, sd) ==
    IF IsDouble(x) THEN FMul(x, FOfRatio(sn, sd)) ELSE RScale(x, sn, sd)

\* row *= sn / sd
ScaleRow(row, sn, sd) == [c \in 1 .. Len(row) |-> Scale(row[c], sn, sd)]

Round(x) == IF IsDouble(x) THEN FRint(x) ELSE RRound(x)

\* M.round().tolist()
RoundAll(M) == [r \in 1 .. Len(M) |-> [c \in 1 .. Len(M[r]) |-> Round(M[r][c])]]

\* row.insert(0, v)
InsertFront(row, v) == <<Num(v)>> \o row

----------------------------------------------------------------------------
(* Text: a line is the sequence of its characters. *)

DigitChars == <<"0", "1", "2", "3", "4", "5", "6", "7", "8", "9">>

\* '%d' of a natural number.
RECURSIVE DecNat(_)
DecNat(k) ==
    IF k < 10
    THEN <<DigitChars[k + 1]>>
    ELSE DecNat(k \div 10) \o <<DigitChars[(k % 10) + 1]>>

\* '%d' of a natural number of any size.
RECURSIVE DecBig(_)
DecBig(a) ==
    IF Len(a) <= 1 /\ Low(a) < 10
    THEN <<DigitChars[Low(a) + 1]>>
    ELSE LET h == BigDivSmall(a, 10)
         IN  DecBig(h[1]) \o <<DigitChars[h[2] + 1]>>

\* '%d' of an integer.
Dec(k) == IF k < 0 THEN <<"-">> \o DecNat(-k) ELSE DecNat(k)

\* '%d' % int(x)
DecInt(x) ==
    IF IsDouble(x)
    THEN IF FInt(x).neg /\ FInt(x).big # <<>>
         THEN <<"-">> \o DecBig(FInt(x).big)
         ELSE DecBig(FInt(x).big)
    ELSE Dec(PyInt(x))

\* The conversions of tuple(map(int, row)), one text per entry.
DecRow(row) == [c \in 1 .. Len(row) |-> DecInt(row[c])]

\* template % args, for a template whose only conversions are %d, given the
\* text of each argument.
RECURSIVE PyFormat(_, _)
PyFormat(t, a) ==
    IF t = <<>>
    THEN <<>>
    ELSE IF Len(t) >= 2 /\ t[1] = "%" /\ t[2] = "d"
         THEN Head(a) \o PyFormat(SubSeq(t, 3, Len(t)), Tail(a))
         ELSE <<t[1]>> \o PyFormat(Tail(t), a)

\* tuple(map(int, row)), for a row of Reals
IntRow(row) == [c \in 1 .. Len(row) |-> PyInt(row[c])]

ForwardTemplate ==
    <<"(", "%", "d", " ", "+", " ", "%", "d", "*", "r", " ", "+", " ",
      "%", "d", "*", "g", " ", "+", " ", "%", "d", "*", "b", ")", ">", ">",
      "1", "6">>

InverseTemplate ==
    <<"(", "%", "d", " ", "+", " ", "%", "d", "*", "y", " ", "+", " ",
      "%", "d", "*", "c", "b", " ", "+", " ", "%", "d", "*", "c", "r", ")",
      ">", ">", "1", "6">>


\* Lines 38-40: the expression of one forward row.
ForwardLine(row) == PyFormat(ForwardTemplate, DecRow(row))

\* An inverse row printed with the forward template.
InverseLineAsForward(row) == PyFormat(ForwardTemplate, DecRow(row))

\* Lines 52-54: the expression of one inverse row.
InverseLine(row) == PyFormat(InverseTemplate, DecRow(row))

----------------------------------------------------------------------------
(* The scaling factors and the biases. *)

\* Full range: no compression to 219 or 224 levels.
ForwardScaleNumFullRange(r) == Fixed * FullLevels

\* Lines 30-31: row 0 of A by 65536*219/255, rows 1 and 2 by 65536*224/255.
ForwardScaleNum(r) == Fixed * (IF r = 0 THEN LumaLevels ELSE ChromaLevels)
ForwardScaleDen(r) == FullLevels

\* Lines 42-43: row 0 of B by 65536*255/219, rows 1 and 2 by 65536*255/224.
InverseScaleNum(r) == Fixed * FullLevels
InverseScaleDen(r) == IF r = 0 THEN LumaLevels ELSE ChromaLevels

ForwardBiasUnrounded(r) ==
    (IF r = 0 THEN LumaOffset ELSE ChromaOffset) * Fixed

\* Lines 33 and 35: 16*65536 + 32768 for row 0, 128*65536 + 32768 for rows 1, 2.
ForwardBias(r) ==
    (IF r = 0 THEN LumaOffset ELSE ChromaOffset) * Fixed + HalfFixed

InverseBiasUnrounded(r) == 0

\* Line 46: 32768 for every row.
InverseBias(r) == HalfFixed

----------------------------------------------------------------------------
(* The script, statement by statement. *)

Init ==
    /\ pc = 22
    /\ \E w \in Weights : kb = w[1] /\ kr = w[2]
    /\ A = <<>>
    /\ B = <<>>
    /\ i = -1
    /\ iter = <<>>
    /\ out = <<>>
    /\ err = "none"

Running(line) == pc = line /\ err = "none"

\* An uncaught exception: the traceback names the line, the process exits.
Raise(e) ==
    /\ err' = e
    /\ UNCHANGED <<pc, kb, kr, A, B, i, iter, out>>

\* Line 22 with the print() of line 36 moved ahead of it.
BuildAfterEmit ==
    /\ Running(22)
    /\ out' = Append(out, <<>>)
    /\ IF ZeroDenominator(kb, kr)
       THEN /\ err' = "ZeroDivisionError"
            /\ UNCHANGED <<pc, kb, kr, A, B, i, iter>>
       ELSE /\ A' = BuildMatrix(kb, kr)
            /\ pc' = 27
            /\ UNCHANGED <<kb, kr, B, i, iter, err>>

\* Lines 22-26: A = matrix([...])
BuildA ==
    /\ Running(22)
    /\ IF ZeroDenominator(kb, kr)
       THEN Raise("ZeroDivisionError")
       ELSE /\ A' = BuildMatrix(kb, kr)
            /\ pc' = 27
            /\ UNCHANGED <<kb, kr, B, i, iter, out, err>>

\* Line 27: B = linalg.inv(A)
InvertA ==
    /\ Running(27)
    /\ IF IsSingular(kb, kr)
       THEN Raise("LinAlgError")
       ELSE /\ IF InDoubles(kb, kr)
               THEN B' = FInv(A).inv
               ELSE B' = Inv3(A)
            /\ pc' = 30
            /\ UNCHANGED <<kb, kr, A, i, iter, out, err>>

\* Line 30: A[0] *= 65536 * 219 / 255
ScaleLumaA ==
    /\ Running(30)
    /\ A' = [A EXCEPT ![1] = ScaleRow(@, ForwardScaleNum(0), ForwardScaleDen(0))]
    /\ pc' = 31
    /\ UNCHANGED <<kb, kr, B, i, iter, out, err>>

\* Line 31: A[1:] *= 65536 * 224 / 255
ScaleChromaA ==
    /\ Running(31)
    /\ A' = [A EXCEPT ![2] = ScaleRow(@, ForwardScaleNum(1), ForwardScaleDen(1)),
                      ![3] = ScaleRow(@, ForwardScaleNum(2), ForwardScaleDen(2))]
    /\ pc' = 32
    /\ UNCHANGED <<kb, kr, B, i, iter, out, err>>

\* Line 32: A = A.round().tolist()
RoundA ==
    /\ Running(32)
    /\ A' = RoundAll(A)
    /\ pc' = 33
    /\ UNCHANGED <<kb, kr, B, i, iter, out, err>>

\* Line 33: A[0].insert(0, 16*65536 + 32768)
BiasLumaA ==
    /\ Running(33)
    /\ A' = [A EXCEPT ![1] = InsertFront(@, ForwardBias(0))]
    /\ pc' = 34
    /\ UNCHANGED <<kb, kr, B, i, iter, out, err>>

\* A for statement over range(lo, hi): iter is <<>> before the loop starts and
\* <<next value, hi>> while it runs.
ForRange(lo, hi, body, exit) ==
    /\ LET cur == IF iter = <<>> THEN lo ELSE iter[1]
       IN  IF cur < hi
           THEN /\ i' = cur
                /\ iter' = <<cur + 1, hi>>
                /\ pc' = body
           ELSE /\ iter' = <<>>
                /\ pc' = exit
                /\ i' = i
    /\ UNCHANGED <<kb, kr, A, B, out, err>>

\* Line 34: for i in range(1,3):
ForChromaA ==
    /\ Running(34)
    /\ ForRange(1, 3, 35, 36)

\* Line 35: A[i].insert(0, 128*65536 + 32768)
BiasChromaA ==
    /\ Running(35)
    /\ A' = [A EXCEPT ![i + 1] = InsertFront(@, ForwardBias(i))]
    /\ pc' = 34
    /\ UNCHANGED <<kb, kr, B, i, iter, out, err>>

\* print(text): one more line on standard output.
Emit(text) ==
    /\ out' = Append(out, text)
    /\ UNCHANGED <<kb, kr, A, B, i, iter, err>>

\* Line 36: print()
EmitBlankForward ==
    /\ Running(36)
    /\ Emit(<<>>)
    /\ pc' = 37

\* Line 37: print('RGB to YCbCr:')
EmitForwardHeader ==
    /\ Running(37)
    /\ Emit(<<"R", "G", "B", " ", "t", "o", " ", "Y", "C", "b", "C", "r", ":">>)
    /\ pc' = 38

\* Lines 38-40: print('(%d + %d*r + %d*g + %d*b)>>16'%tuple(map(int, A[k])))
EmitForwardY ==
    /\ Running(38)
    /\ Emit(ForwardLine(A[1]))
    /\ pc' = 39
EmitForwardCb ==
    /\ Running(39)
    /\ Emit(ForwardLine(A[2]))
    /\ pc' = 40
EmitForwardCr ==
    /\ Running(40)
    /\ Emit(ForwardLine(A[3]))
    /\ pc' = 42

\* Line 42: B[0] *= 65536 * 255 / 219
ScaleFirstB ==
    /\ Running(42)
    /\ B' = [B EXCEPT ![1] = ScaleRow(@, InverseScaleNum(0), InverseScaleDen(0))]
    /\ pc' = 43
    /\ UNCHANGED <<kb, kr, A, i, iter, out, err>>

\* Line 43: B[1:] *= 65536 * 255 / 224
ScaleRestB ==
    /\ Running(43)
    /\ B' = [B EXCEPT ![2] = ScaleRow(@, InverseScaleNum(1), InverseScaleDen(1)),
                      ![3] = ScaleRow(@, InverseScaleNum(2), InverseScaleDen(2))]
    /\ pc' = 44
    /\ UNCHANGED <<kb, kr, A, i, iter, out, err>>

\* Line 44: B = B.round().tolist()
RoundB ==
    /\ Running(44)
    /\ B' = RoundAll(B)
    /\ pc' = 45
    /\ UNCHANGED <<kb, kr, A, i, iter, out, err>>

\* Line 45: for i in range(0,3):
ForRowsB ==
    /\ Running(45)
    /\ ForRange(0, 3, 46, 47)

\* Line 46: B[i].insert(0, 32768)
BiasB ==
    /\ Running(46)
    /\ B' = [B EXCEPT ![i + 1] = InsertFront(@, InverseBias(i))]
    /\ pc' = 45
    /\ UNCHANGED <<kb, kr, A, i, iter, out, err>>

\* Line 47: print()
EmitBlankInverse ==
    /\ Running(47)
    /\ Emit(<<>>)
    /\ pc' = 48

\* Line 48: print('YCbCr to RGB:')
EmitInverseHeader ==
    /\ Running(48)
    /\ Emit(<<"Y", "C", "b", "C", "r", " ", "t", "o", " ", "R", "G", "B", ":">>)
    /\ pc' = 49

\* Lines 49-51: print('y -= 16'), print('cb -= 128'), print('cr -= 128')
EmitSubtractY ==
    /\ Running(49)
    /\ Emit(<<"y", " ", "-", "=", " ", "1", "6">>)
    /\ pc' = 50
EmitSubtractCb ==
    /\ Running(50)
    /\ Emit(<<"c", "b", " ", "-", "=", " ", "1", "2", "8">>)
    /\ pc' = 51
EmitSubtractCr ==
    /\ Running(51)
    /\ Emit(<<"c", "r", " ", "-", "=", " ", "1", "2", "8">>)
    /\ pc' = 52

\* Lines 52-54: print('(%d + %d*y + %d*cb + %d*cr)>>16'%tuple(map(int, B[k])))
EmitInverseR ==
    /\ Running(52)
    /\ Emit(InverseLine(B[1]))
    /\ pc' = 53
EmitInverseG ==
    /\ Running(53)
    /\ Emit(InverseLine(B[2]))
    /\ pc' = 54
\* pc = 55: past the last line, the script has ended.
EmitInverseB ==
    /\ Running(54)
    /\ Emit(InverseLine(B[3]))
    /\ pc' = 55

Next ==
    \/ BuildA
    \/ InvertA
    \/ ScaleLumaA
    \/ ScaleChromaA
    \/ RoundA
    \/ BiasLumaA
    \/ ForChromaA
    \/ BiasChromaA
    \/ EmitBlankForward
    \/ EmitForwardHeader
    \/ EmitForwardY
    \/ EmitForwardCb
    \/ EmitForwardCr
    \/ ScaleFirstB
    \/ ScaleRestB
    \/ RoundB
    \/ ForRowsB
    \/ BiasB
    \/ EmitBlankInverse
    \/ EmitInverseHeader
    \/ EmitSubtractY
    \/ EmitSubtractCb
    \/ EmitSubtractCr
    \/ EmitInverseR
    \/ EmitInverseG
    \/ EmitInverseB

\* Lines 30-35 applied to the matrix M of lines 22-26: the four-entry rows
\* of A.
ForwardRowsOf(M) ==
    LET R == RoundAll([k \in 1 .. 3 |->
                 ScaleRow(M[k], ForwardScaleNum(k - 1), ForwardScaleDen(k - 1))])
    IN  [k \in 1 .. 3 |-> InsertFront(R[k], ForwardBias(k - 1))]

\* Lines 22-35 as one function of the weights: the four-entry rows of A,
\* in doubles when kb + kr = 1 as BuildA computes them.  There are no rows
\* when lines 22-26 or line 27 raise: the run does not get to line 30.
ForwardRows(b, r) ==
    ForwardRowsOf(IF IsSingular(b, r) THEN <<>> ELSE BuildMatrix(b, r))

\* Lines 42-46 applied to the inverse M of line 27: the four-entry rows of B.
InverseRowsOf(M) ==
    LET R == RoundAll([k \in 1 .. 3 |->
                 ScaleRow(M[k], InverseScaleNum(k - 1), InverseScaleDen(k - 1))])
    IN  [k \in 1 .. 3 |-> InsertFront(R[k], InverseBias(k - 1))]

\* Lines 22-27 and 42-46 as one function of the weights: the rows of B.
\* When kb + kr = 1 line 27 inverts the matrix of doubles, as InvertA does;
\* there are no rows when line 27 raises.
InverseRows(b, r) ==
    InverseRowsOf(IF InDoubles(b, r)
                  THEN FInv(FloatForwardMatrix(b, r)).inv
                  ELSE Inv3(ForwardMatrix(b, r)))

Spec == Init /\ [][Next]_vars

Done == pc = 55 /\ err = "none"
Failed == err # "none"

----------------------------------------------------------------------------
(* Reading the emitted text back, as the code it is pasted into reads it:  *)
(* an integer literal is a maximal run of digits, with a '-' right before  *)
(* it taken as its sign; v >> k is the arithmetic shift, floor(v / 2^k).   *)

IsDigit(c) == \E k \in 1 .. 10 : DigitChars[k] = c

DigitVal(c) == (CHOOSE k \in 1 .. 10 : DigitChars[k] = c) - 1

\* The first position from k on that holds no digit.
RECURSIVE DigitsEnd(_, _)
DigitsEnd(s, k) ==
    IF k <= Len(s) /\ IsDigit(s[k]) THEN DigitsEnd(s, k + 1) ELSE k

\* The number written by the digits s[k .. e - 1].
RECURSIVE NatAt(_, _, _)
NatAt(s, k, e) ==
    IF e <= k THEN 0 ELSE 10 * NatAt(s, k, e - 1) + DigitVal(s[e - 1])

SignedAt(s, k) == s[k] = "-" /\ k < Len(s) /\ IsDigit(s[k + 1])

\* The integer literals of s from position k on, in order.
RECURSIVE IntsFrom(_, _)
IntsFrom(s, k) ==
    IF k > Len(s) THEN <<>>
    ELSE IF IsDigit(s[k])
         THEN <<NatAt(s, k, DigitsEnd(s, k))>> \o IntsFrom(s, DigitsEnd(s, k))
    ELSE IF SignedAt(s, k)
         THEN <<-NatAt(s, k + 1, DigitsEnd(s, k + 1))>>
                  \o IntsFrom(s, DigitsEnd(s, k + 1))
    ELSE IntsFrom(s, k + 1)

Ints(s) == IntsFrom(s, 1)

\* The integer literals of s from position k on as they are written, sign
\* included, whatever their size.
RECURSIVE LiteralsFrom(_, _)
LiteralsFrom(s, k) ==
    IF k > Len(s) THEN <<>>
    ELSE IF IsDigit(s[k])
         THEN <<SubSeq(s, k, DigitsEnd(s, k) - 1)>>
                  \o LiteralsFrom(s, DigitsEnd(s, k))
    ELSE IF SignedAt(s, k)
         THEN <<SubSeq(s, k, DigitsEnd(s, k + 1) - 1)>>
                  \o LiteralsFrom(s, DigitsEnd(s, k + 1))
    ELSE LiteralsFrom(s, k + 1)

Literals(s) == LiteralsFrom(s, 1)

\* s from position k on with every integer literal replaced by "#".
RECURSIVE ShapeFrom(_, _)
ShapeFrom(s, k) ==
    IF k > Len(s) THEN <<>>
    ELSE IF IsDigit(s[k]) THEN <<"#">> \o ShapeFrom(s, DigitsEnd(s, k))
    ELSE IF SignedAt(s, k) THEN <<"#">> \o ShapeFrom(s, DigitsEnd(s, k + 1))
    ELSE <<s[k]>> \o ShapeFrom(s, k + 1)

Shape(s) == ShapeFrom(s, 1)

\* v >> k
Shr(v, k) == v \div (2 ^ k)

\* The multiplicative part of an expression c = <<bias, c0, c1, c2, shift>>.
Terms(c, x, y, z) == c[2] * x + c[3] * y + c[4] * z

\* (bias + c0*x + c1*y + c2*z) >> shift
Eval(c, x, y, z) == Shr(c[1] + Terms(c, x, y, z), c[5])

\* The integer literals of the lines k, k + 1, ... of the output o.
RECURSIVE ParsedFrom(_, _)
ParsedFrom(o, k) ==
    IF k > Len(o) THEN <<>> ELSE <<Ints(o[k])>> \o ParsedFrom(o, k + 1)

Parsed(o) == ParsedFrom(o, 1)

\* The three forward expressions, read as p, on the pixel (r, g, b).
ToYCbCr(p, r, g, b) ==
    <<Eval(p[3], r, g, b), Eval(p[4], r, g, b), Eval(p[5], r, g, b)>>

\* The 'x -= k' lines, then the three inverse expressions, read as p.
ToRGB(p, y, cb, cr) ==
    LET y0  == y - p[8][1]
        cb0 == cb - p[9][1]
        cr0 == cr - p[10][1]
    IN  <<Eval(p[11], y0, cb0, cr0), Eval(p[12], y0, cb0, cr0),
          Eval(p[13], y0, cb0, cr0)>>

Levels == {(FullLevels * k) \div MaxLevelIdx : k \in 0 .. MaxLevelIdx}

Within(a, b, tol) == Abs(a - b) <= tol

\* Forward then inverse gives every sampled pixel back within tol per channel.
RoundTrip(o, tol) ==
    LET p == Parsed(o)
    IN  \A r, g, b \in Levels :
            LET v == ToYCbCr(p, r, g, b)
                w == ToRGB(p, v[1], v[2], v[3])
            IN  /\ Within(w[1], r, tol)
                /\ Within(w[2], g, tol)
                /\ Within(w[3], b, tol)

Is709 == <<kb, kr>> = BT709
Is601 == <<kb, kr>> = BT601

----------------------------------------------------------------------------
(* The claims. *)

\* C1: with the BT.709 coefficients, the emitted forward expressions, the
\* three subtractions and the emitted inverse expressions give every pixel
\* (r, g, b) back within 1 per channel.
C1_RoundTrip709 == (Done /\ Is709) => RoundTrip(out, 1)

\* The forward matrix as the specification writes it, for weights b/WDen, r/WDen.
ClaimedForward(b, r) ==
    LET g == WDen - r - b
    IN  << <<FromFrac(r, WDen), FromFrac(g, WDen), FromFrac(b, WDen)>>,
           <<FromFrac(-r, 2 * (WDen - b)), FromFrac(-g, 2 * (WDen - b)), Half>>,
           <<Half, FromFrac(-g, 2 * (WDen - r)), FromFrac(-b, 2 * (WDen - r))>> >>

\* The same rows in doubles, each entry as the specification writes it, from
\* the floats kr, 1 - kr - kb, kb, 1 - kb and 1 - kr.
ClaimedRows(fr, fg, fb, nb, nr) ==
    << <<fr, fg, fb>>,
       <<FDiv(FMul(FNeg(FHalf), fr), nb), FDiv(FMul(FNeg(FHalf), fg), nb), FHalf>>,
       <<FHalf, FDiv(FMul(FNeg(FHalf), fg), nr), FDiv(FMul(FNeg(FHalf), fb), nr)>> >>

ClaimedMatrixOf(fb, fr) ==
    ClaimedRows(fr, FSub(FSub(FOne, fr), fb), fb, FSub(FOne, fb), FSub(FOne, fr))

ClaimedForwardInDoubles(b, r) ==
    ClaimedMatrixOf(FOfRatio(b, WDen), FOfRatio(r, WDen))

\* abs(v) <= 1e-9, for v exact: v * 10^9 <= 1
Negligible(v) ==
    \/ FIsZero(v)
    \/ /\ v.e < 0
       /\ BigCmp(BigMul(v.m, BigOf(10 ^ 9)), BigShl(BigOf(1), -v.e)) <= 0

\* Entry (r, c) of M * N - I for matrices of Doubles, exactly.
Residual(M, N, r, c) ==
    LET p1 == XMul(M[r][1], N[1][c])
        p2 == XMul(M[r][2], N[2][c])
        p3 == XMul(M[r][3], N[3][c])
    IN  XAdd(XAdd(XAdd(p1, p2), p3), IF r = c THEN FNeg(FOne) ELSE FZero)

\* M * N = I within 1e-9
NearIdentity(M, N) ==
    \A r, c \in 1 .. 3 : Negligible(Residual(M, N, r, c))

\* C2: B is the inverse of A taken while A holds its unscaled entries: when
\* line 27 has run, A is the unscaled forward matrix and A * B = I (exactly
\* where the model computes exactly, within 1e-9 where it computes in
\* doubles, kb + kr = 1), and until B itself is scaled (line 42) B stays the
\* inverse of that unscaled matrix, whatever has been done to A since.
C2_InverseBeforeScaling ==
    /\ (err = "none" /\ pc \in {27, 30} /\ ~InDoubles(kb, kr)) =>
            A = ClaimedForward(kb, kr)
    /\ (err = "none" /\ pc \in {27, 30} /\ InDoubles(kb, kr)) =>
            A = ClaimedForwardInDoubles(kb, kr)
    /\ (err = "none" /\ pc = 30 /\ ~InDoubles(kb, kr)) => MatMul(A, B) = Identity
    /\ (err = "none" /\ pc = 30 /\ InDoubles(kb, kr)) => NearIdentity(A, B)
    /\ (err = "none" /\ pc >= 30 /\ pc <= 42 /\ ~InDoubles(kb, kr)) =>
            /\ MatMul(ClaimedForward(kb, kr), B) = Identity
            /\ MatMul(B, ClaimedForward(kb, kr)) = Identity
    /\ (err = "none" /\ pc >= 30 /\ pc <= 42 /\ InDoubles(kb, kr)) =>
            LET M == ClaimedForwardInDoubles(kb, kr)
            IN  Len(M) = 3 /\ NearIdentity(M, B)

\* BT.709: A has been scaled and rounded, B is still the unscaled inverse
\* (R = Y + 1.5748 Cr).
C2_Witness ==
    /\ Is709 /\ err = "none" /\ pc = 42
    /\ A[1][2] = Num(11966)
    /\ B[1][3] = FromFrac(15748, 10000)

\* C3: for BT.709 the bias of the emitted luma expression is 1081344 and the
\* bias of each emitted chroma expression is 8421376; the bias joins a row
\* only after the row was scaled and rounded (rows have three entries up to
\* line 33), so that it is never scaled itself.
C3_ForwardBias ==
    Is709 =>
        /\ (err = "none" /\ pc \in {27, 30, 31, 32, 33}) =>
                \A r \in 1 .. 3 : Len(A[r]) = 3
        /\ (err = "none" /\ pc >= 36) =>
                /\ A[1][1] = Num(1081344)
                /\ A[2][1] = Num(8421376)
                /\ A[3][1] = Num(8421376)
        /\ Done =>
                /\ Ints(out[3])[1] = 1081344
                /\ Ints(out[4])[1] = 8421376
                /\ Ints(out[5])[1] = 8421376

C3_Witness ==
    /\ Done /\ Is709
    /\ SubSeq(out[3], 1, 9) = <<"(", "1", "0", "8", "1", "3", "4", "4", " ">>

\* C4: the three multiplicative coefficients of the emitted luma expression
\* sum to 65536*219/255 within 1.5:  |255 * sum - 65536 * 219| <= 1.5 * 255.
C4_LumaRowSum ==
    Done =>
        LET c == Ints(out[3])
        IN  2 * Abs(255 * (c[2] + c[3] + c[4]) - 65536 * 219) <= 3 * 255

C4_Witness ==
    /\ Done /\ Is709
    /\ Ints(out[3])[2] + Ints(out[3])[3] + Ints(out[3])[4] = 56284

\* C5: the BT.601 and the BT.709 weights give two different coefficient sets,
\* and each set gives every pixel back within 1 per channel.  The coefficient
\* sets of the two runs are compared as ForwardRows and InverseRows of their
\* weights, which a run with either standard's weights has in A and B when it
\* ends.
C5_BothStandards ==
    /\ ForwardRows(BT601[1], BT601[2]) # ForwardRows(BT709[1], BT709[2])
    /\ InverseRows(BT601[1], BT601[2]) # InverseRows(BT709[1], BT709[2])
    /\ (Done /\ (Is601 \/ Is709)) =>
            /\ A = ForwardRows(kb, kr)
            /\ B = InverseRows(kb, kr)
            /\ RoundTrip(out, 1)

ExpectedForwardShape ==
    <<"(", "#", " ", "+", " ", "#", "*", "r", " ", "+", " ", "#", "*", "g",
      " ", "+", " ", "#", "*", "b", ")", ">", ">", "#">>

ExpectedInverseShape ==
    <<"(", "#", " ", "+", " ", "#", "*", "y", " ", "+", " ", "#", "*", "c", "b",
      " ", "+", " ", "#", "*", "c", "r", ")", ">", ">", "#">>

\* What the k-th line of the output has to be.
ExpectedLine(k, line) ==
    CASE k \in {1, 6} -> line = <<>>
      [] k = 2 ->
            line = <<"R", "G", "B", " ", "t", "o", " ", "Y", "C", "b", "C", "r", ":">>
      [] k \in {3, 4, 5} ->
            /\ Shape(line) = ExpectedForwardShape
            /\ Len(Literals(line)) = 5 /\ Literals(line)[5] = <<"1", "6">>
      [] k = 7 ->
            line = <<"Y", "C", "b", "C", "r", " ", "t", "o", " ", "R", "G", "B", ":">>
      [] k = 8 -> line = <<"y", " ", "-", "=", " ", "1", "6">>
      [] k = 9 -> line = <<"c", "b", " ", "-", "=", " ", "1", "2", "8">>
      [] k = 10 -> line = <<"c", "r", " ", "-", "=", " ", "1", "2", "8">>
      [] k \in {11, 12, 13} ->
            /\ Shape(line) = ExpectedInverseShape
            /\ Len(Literals(line)) = 5 /\ Literals(line)[5] = <<"1", "6">>
      [] OTHER -> FALSE

\* C6: the output is at every moment a prefix of the 13-line structure (blank,
\* header, three forward expressions, blank, header, three subtractions,
\* three inverse expressions), complete when the script ends; the forward
\* expressions are those of rows Y, Cb, Cr of A and the inverse ones those
\* of rows 0, 1, 2 of B, in this order, every placeholder a decimal integer
\* of any size.
C6_OutputStructure ==
    /\ \A k \in 1 .. Len(out) : ExpectedLine(k, out[k])
    /\ Done =>
            /\ Len(out) = 13
            /\ \A k \in 1 .. 3 :
                    /\ SubSeq(Literals(out[2 + k]), 1, 4) = DecRow(A[k])
                    /\ SubSeq(Literals(out[10 + k]), 1, 4) = DecRow(B[k])
                    /\ ~InDoubles(kb, kr) =>
                            /\ SubSeq(Ints(out[2 + k]), 1, 4) = IntRow(A[k])
                            /\ SubSeq(Ints(out[10 + k]), 1, 4) = IntRow(B[k])

\* A complete output whose Cb expression holds negative coefficients.
C6_Witness ==
    /\ Done /\ Is709 /\ Len(out) = 13
    /\ Ints(out[4]) = <<8421376, -6596, -22189, 28784, 16>>
    /\ Ints(out[12]) = <<32768, 74606, -13975, -34925, 16>>

\* The configurations the specification calls invalid.
InvalidWeights(b, r) == b + r >= WDen \/ b = WDen \/ r = WDen

C9_LimitedRange ==
    (Done /\ Is709) =>
        LET p == Parsed(out)
        IN  /\ \A r, g, b \in Levels :
                    LET v == ToYCbCr(p, r, g, b)
                    IN  /\ v[1] >= 16 /\ v[1] <= 235
                        /\ v[2] >= 16 /\ v[2] <= 240
                        /\ v[3] >= 16 /\ v[3] <= 240
            /\ ToYCbCr(p, 0, 0, 0)[1] = 16
            /\ ToYCbCr(p, 255, 255, 255)[1] = 235
            /\ \A v \in 0 .. 255 :
                    /\ ToYCbCr(p, v, v, v)[2] = 128
                    /\ ToYCbCr(p, v, v, v)[3] = 128

\* The extremes are reached: blue gives cb = 240, red cr = 240, yellow cb = 16.
C9_Witness ==
    /\ Done /\ Is709
    /\ ToYCbCr(Parsed(out), 0, 0, 255)[2] = 240
    /\ ToYCbCr(Parsed(out), 255, 0, 0)[3] = 240
    /\ ToYCbCr(Parsed(out), 255, 255, 0)[2] = 16
    /\ ToYCbCr(Parsed(out), 255, 255, 255)[1] = 235

\* n is s / 65536 rounded to the nearest integer, a tie upward.
NearestTo(n, s) == 65536 * n - 32768 <= s /\ s < 65536 * n + 32768

\* s / 65536 truncated toward zero.
Truncated(s) == IF s >= 0 THEN s \div 65536 ELSE -((-s) \div 65536)

\* C10: every emitted inverse expression has the bias 32768 and every forward
\* one 32768 on top of its offset (16 or 128, the amount its 'x -= k' line
\* takes back) times 65536, so that an expression's value is its offset plus
\* the sum s of its multiplicative terms over 65536 rounded to the nearest
\* integer, for positive and negative s alike (the sums of the inverse
\* expressions are taken from the runs with kb + kr # 1).
C10_RoundingBias ==
    Done =>
        /\ \A k \in 11 .. 13 : Literals(out[k])[1] = Dec(32768)
        /\ LET p == Parsed(SubSeq(out, 1, 10))
           IN  /\ \A k \in 3 .. 5 : p[k][1] = p[k + 5][1] * 65536 + 32768
               /\ \A x, y, z \in Levels :
                       \A k \in 3 .. 5 :
                           NearestTo(Eval(p[k], x, y, z) - p[k + 5][1],
                                     Terms(p[k], x, y, z))
        /\ ~InDoubles(kb, kr) =>
                LET p == Parsed(out)
                IN  \A x, y, z \in Levels :
                        \A k \in 11 .. 13 :
                            NearestTo(Eval(p[k], x - p[8][1], y - p[9][1], z - p[10][1]),
                                      Terms(p[k], x - p[8][1], y - p[9][1], z - p[10][1]))

\* A negative sum whose rounded value is not the truncated one.
C10_Witness ==
    /\ Done /\ Is709
    /\ LET c == Ints(out[12])
       IN  \E x, y, z \in Levels :
               /\ Terms(c, x - 16, y - 128, z - 128) < 0
               /\ Eval(c, x - 16, y - 128, z - 128)
                      # Truncated(Terms(c, x - 16, y - 128, z - 128))

====
